---- MODULE Spec2Model ----
(***************************************************************************)
(* MAX31855 driver, I/O-less decode core (src/src/lib.rs).                 *)
(*                                                                         *)
(* The decode functions are pure; the state is what the callers of the     *)
(* driver hold: the frame the chip shifted out, the unit they asked for    *)
(* and the values the four helper functions returned to them.              *)
(***************************************************************************)
EXTENDS Integers, Sequences, FiniteSets, TLC

(***************************************************************************)
(* Bounds of the model.                                                    *)
(***************************************************************************)
\* number of independent callers of the decode core
NumCallers == 2
\* low/fault bytes 0..ByteSpan are enumerated for bytes 1 and 3 of a frame
ByteSpan == 8
\* uncalibrated bits_to_i16 fields are sampled this far around 0, the sign
\* boundary and the top of the field
SampleSpan == 2

(***************************************************************************)
(* Machine arithmetic: u16 / i16 and the bit_field crate's accessors.      *)
(***************************************************************************)
Pow2(n) == 2 ^ n

\* BitField::get_bit for unsigned carriers
get_bit(x, i) == (x \div Pow2(i)) % 2 = 1

\* BitField::get_bits(lo..=hi) for unsigned carriers
get_bits(x, range) == (x \div Pow2(range.lo)) % Pow2(range.hi - range.lo + 1)

\* (a as u16) << 8 | (b as u16)
be_u16(a, b) == a * 256 + b

\* u16 << shift (bits shifted out are dropped)
shl_u16(x, s) == (x * Pow2(s)) % 65536

\* u16 as i16 (two's-complement reinterpretation)
as_i16(x) == IF x >= 32768 THEN x - 65536 ELSE x

\* i16 / i16, which truncates toward zero
div_i16(a, d) ==
    IF (a >= 0) = (d > 0) THEN (IF a >= 0 THEN a ELSE -a) \div (IF d > 0 THEN d ELSE -d)
    ELSE -((IF a >= 0 THEN a ELSE -a) \div (IF d > 0 THEN d ELSE -d))

(***************************************************************************)
(* IEEE-754 binary32 arithmetic (f32), round to nearest, ties to even.     *)
(* A finite value is m * 2^e with m = 0 /\ e = 0, or 2^23 <= |m| < 2^24.   *)
(* Every value the driver computes is far from overflow and underflow.     *)
(***************************************************************************)
Abs(n) == IF n < 0 THEN -n ELSE n
Sgn(n) == IF n < 0 THEN -1 ELSE 1

\* number of significant bits of n >= 0
BitLen(n) == IF n = 0 THEN 0 ELSE CHOOSE k \in 1..31 : Pow2(k - 1) <= n /\ (k = 31 \/ n < Pow2(k))

F32Zero == [m |-> 0, e |-> 0]

\* the f32 nearest to sign * n * 2^e (n >= 0), where sticky says that the
\* exact magnitude lies strictly between n and n + 1 units of 2^e
F32Round(sign, n, e, sticky) ==
    LET L == BitLen(n) IN
    IF n = 0 THEN F32Zero
    ELSE IF L <= 24 THEN [m |-> sign * n * Pow2(24 - L), e |-> e - (24 - L)]
    ELSE LET d    == L - 24
             q    == n \div Pow2(d)
             r    == n % Pow2(d)
             half == Pow2(d - 1)
             up   == r > half \/ (r = half /\ (sticky \/ q % 2 = 1))
             q1   == IF up THEN q + 1 ELSE q
         IN IF q1 = Pow2(24) THEN [m |-> sign * Pow2(23), e |-> e + d + 1]
            ELSE [m |-> sign * q1, e |-> e + d]

\* i16 as f32 (exact)
F32FromInt(c) == F32Round(Sgn(c), Abs(c), 0, FALSE)

\* f32 * f32
F32Mul(x, y) ==
    IF x.m = 0 \/ y.m = 0 THEN F32Zero
    ELSE LET a    == Abs(x.m)
             b    == Abs(y.m)
             a1   == a \div 4096
             a0   == a % 4096
             b1   == b \div 4096
             b0   == b % 4096
             mid  == a1 * b0 + a0 * b1
             lows == a0 * b0 + (mid % 4096) * 4096
             low  == lows % Pow2(24)
             high == a1 * b1 + mid \div 4096 + lows \div Pow2(24)
         IN F32Round(Sgn(x.m) * Sgn(y.m), high * 64 + low \div Pow2(18),
                     x.e + y.e + 18, low % Pow2(18) # 0)

\* f32 + f32
F32Add(x, y) ==
    IF x.m = 0 THEN y
    ELSE IF y.m = 0 THEN x
    ELSE LET big   == IF x.e >= y.e THEN x ELSE y
             small == IF x.e >= y.e THEN y ELSE x
             diff  == big.e - small.e
             A     == big.m * 64
             s     == diff - 6
             mag   == IF s <= 0 THEN Abs(small.m) * Pow2(-s)
                      ELSE IF s >= 24 THEN 0
                      ELSE Abs(small.m) \div Pow2(s)
             lost  == IF s <= 0 THEN FALSE
                      ELSE IF s >= 24 THEN TRUE
                      ELSE Abs(small.m) % Pow2(s) # 0
             same  == Sgn(big.m) = Sgn(small.m)
             n     == IF same THEN Abs(A) + mag
                      ELSE IF lost THEN Abs(A) - mag - 1
                      ELSE Abs(A) - mag
         IN IF n >= 0 THEN F32Round(Sgn(big.m), n, big.e - 6, lost)
            ELSE F32Round(-Sgn(big.m), -n, big.e - 6, lost)

\* the f32 literals of the source
F32_0_25   == [m |-> 8388608,  e |-> -25]
F32_0_0625 == [m |-> 8388608,  e |-> -27]
F32_1_8    == [m |-> 15099494, e |-> -23]
F32_32     == [m |-> 8388608,  e |-> -18]
F32_273_15 == [m |-> 8950579,  e |-> -15]

(***************************************************************************)
(* Constants of the driver.                                                *)
(***************************************************************************)
THERMOCOUPLE_BITS == [lo |-> 2, hi |-> 15]
FAULT_BIT == 0
INTERNAL_BITS == [lo |-> 4, hi |-> 15]
FAULT_VCC_SHORT_BIT == 2
FAULT_GROUND_SHORT_BIT == 1
FAULT_NO_THERMOCOUPLE_BIT == 0

\* enum Unit
Unit == {"Celsius", "Fahrenheit", "Kelvin"}
\* enum Reading
Reading == {"Thermocouple", "Internal"}
\* enum IoLessError
IoLessError == {"Fault", "VccShortFault", "GroundShortFault", "MissingThermocoupleFault"}

\* Result<T, IoLessError>, and a slot no call has filled yet
Ok(v) == [kind |-> "Ok", val |-> v]
Err(e) == [kind |-> "Err", err |-> e]
None == [kind |-> "None"]

(***************************************************************************)
(* The pure functions of the driver.  A buffer is a sequence of bytes, so  *)
(* buffer[k] of the source is buffer[k + 1] here.                          *)
(***************************************************************************)
\* Unit::convert
Unit_convert(unit, celsius) ==
    CASE unit = "Celsius"    -> celsius
      [] unit = "Fahrenheit" -> F32Add(F32Mul(celsius, F32_1_8), F32_32)
      [] unit = "Kelvin"     -> F32Add(celsius, F32_273_15)

\* Reading::convert
Reading_convert(reading, count) ==
    CASE reading = "Thermocouple" -> F32Mul(F32FromInt(count), F32_0_25)
      [] reading = "Internal"     -> F32Mul(F32FromInt(count), F32_0_0625)

\* bits_to_i16 without the sign test: the field is never sign-extended
bits_to_i16_unsigned(bits, len, divisor, shift) == as_i16(bits)

\* bits_to_i16 without the division that undoes the shift
bits_to_i16_undivided(bits, len, divisor, shift) ==
    IF get_bit(bits, len - 1) THEN as_i16(shl_u16(bits, shift)) ELSE as_i16(bits)

\* bits_to_i16 that shifts and divides whatever the sign bit is
bits_to_i16_always_scaled(bits, len, divisor, shift) ==
    div_i16(as_i16(shl_u16(bits, shift)), divisor)

\* bits_to_i16
bits_to_i16(bits, len, divisor, shift) ==
    LET negative == get_bit(bits, len - 1) IN
    IF negative THEN div_i16(as_i16(shl_u16(bits, shift)), divisor)
    ELSE as_i16(bits)

\* FullResultRaw::convert with the two Reading tags exchanged
FullResultRaw_convert_swapped(self, unit) ==
    [thermocouple |-> Unit_convert(unit, Reading_convert("Internal", self.thermocouple)),
     internal     |-> Unit_convert(unit, Reading_convert("Thermocouple", self.internal)),
     unit         |-> unit]

\* FullResultRaw::convert
FullResultRaw_convert(self, unit) ==
    [thermocouple |-> Unit_convert(unit, Reading_convert("Thermocouple", self.thermocouple)),
     internal     |-> Unit_convert(unit, Reading_convert("Internal", self.internal)),
     unit         |-> unit]

\* read_thermocouple_raw that looks for the fault bit in the high byte
read_thermocouple_raw_high_byte(buffer) ==
    IF get_bit(buffer[1], FAULT_BIT) THEN Err("Fault")
    ELSE Ok(bits_to_i16(get_bits(be_u16(buffer[1], buffer[2]), THERMOCOUPLE_BITS), 14, 4, 2))

\* io_less::read_thermocouple_raw
read_thermocouple_raw(buffer) ==
    IF get_bit(buffer[2], FAULT_BIT) THEN Err("Fault")
    ELSE LET raw == be_u16(buffer[1], buffer[2]) IN
         Ok(bits_to_i16(get_bits(raw, THERMOCOUPLE_BITS), 14, 4, 2))

\* io_less::read_thermocouple
read_thermocouple(data, unit) == Unit_convert(unit, Reading_convert("Thermocouple", data))

\* the fault-free branch of read_all_raw
read_all_raw_ok(buffer) ==
    Ok([thermocouple |-> bits_to_i16(get_bits(be_u16(buffer[1], buffer[2]), THERMOCOUPLE_BITS), 14, 4, 2),
        internal     |-> bits_to_i16(get_bits(be_u16(buffer[3], buffer[4]), INTERNAL_BITS), 12, 16, 4)])

\* read_all_raw that tests the subtype bits in the opposite order
read_all_raw_vcc_first(buffer) ==
    IF get_bit(buffer[2], 0) THEN
        LET raw == be_u16(buffer[3], buffer[4]) IN
        IF get_bit(raw, FAULT_VCC_SHORT_BIT) THEN Err("VccShortFault")
        ELSE IF get_bit(raw, FAULT_GROUND_SHORT_BIT) THEN Err("GroundShortFault")
        ELSE IF get_bit(raw, FAULT_NO_THERMOCOUPLE_BIT) THEN Err("MissingThermocoupleFault")
        ELSE Err("Fault")
    ELSE read_all_raw_ok(buffer)

\* read_all_raw that reads the fault bit from bit 1 of the low byte
read_all_raw_fault_bit_1(buffer) ==
    IF get_bit(buffer[2], 1) THEN
        LET raw == be_u16(buffer[3], buffer[4]) IN
        IF get_bit(raw, FAULT_NO_THERMOCOUPLE_BIT) THEN Err("MissingThermocoupleFault")
        ELSE IF get_bit(raw, FAULT_GROUND_SHORT_BIT) THEN Err("GroundShortFault")
        ELSE IF get_bit(raw, FAULT_VCC_SHORT_BIT) THEN Err("VccShortFault")
        ELSE Err("Fault")
    ELSE read_all_raw_ok(buffer)

\* read_all_raw that reports a subtype bit even when the fault bit is clear
read_all_raw_stray_subtype(buffer) ==
    LET raw == be_u16(buffer[3], buffer[4]) IN
    IF get_bit(raw, FAULT_NO_THERMOCOUPLE_BIT) THEN Err("MissingThermocoupleFault")
    ELSE IF get_bit(raw, FAULT_GROUND_SHORT_BIT) THEN Err("GroundShortFault")
    ELSE IF get_bit(raw, FAULT_VCC_SHORT_BIT) THEN Err("VccShortFault")
    ELSE IF get_bit(buffer[2], 0) THEN Err("Fault")
    ELSE read_all_raw_ok(buffer)

\* io_less::read_all_raw
read_all_raw(buffer) ==
    LET fault == get_bit(buffer[2], 0) IN
    IF fault THEN
        LET raw == be_u16(buffer[3], buffer[4]) IN
        IF get_bit(raw, FAULT_NO_THERMOCOUPLE_BIT) THEN Err("MissingThermocoupleFault")
        ELSE IF get_bit(raw, FAULT_GROUND_SHORT_BIT) THEN Err("GroundShortFault")
        ELSE IF get_bit(raw, FAULT_VCC_SHORT_BIT) THEN Err("VccShortFault")
        ELSE Err("Fault")
    ELSE
        LET first_u16  == be_u16(buffer[1], buffer[2])
            second_u16 == be_u16(buffer[3], buffer[4])
        IN Ok([thermocouple |-> bits_to_i16(get_bits(first_u16, THERMOCOUPLE_BITS), 14, 4, 2),
               internal     |-> bits_to_i16(get_bits(second_u16, INTERNAL_BITS), 12, 16, 4)])

\* io_less::read_all
read_all(full_result, unit) == FullResultRaw_convert(full_result, unit)

(***************************************************************************)
(* State.                                                                  *)
(***************************************************************************)
VARIABLES
    frame,      \* per caller: the 4 bytes the chip shifts out, first byte first
    unitOf,     \* per caller: the Unit it asks for
    raw16,      \* per caller: what read_thermocouple_raw returned
    temp,       \* per caller: what read_thermocouple returned
    raw32,      \* per caller: what read_all_raw returned
    full,       \* per caller: what read_all returned
    argBits,    \* bits_to_i16 call: bits
    argLen,     \* bits_to_i16 call: len
    argDivisor, \* bits_to_i16 call: divisor
    argShift,   \* bits_to_i16 call: shift
    count       \* bits_to_i16 call: the value returned

callerVars == <<frame, unitOf, raw16, temp, raw32, full>>
bitsVars == <<argBits, argLen, argDivisor, argShift, count>>
vars == <<frame, unitOf, raw16, temp, raw32, full, argBits, argLen, argDivisor, argShift, count>>

Callers == 1..NumCallers
\* the caller of the single-caller specification
Solo == CHOOSE c \in Callers : \A d \in Callers : c <= d

\* bytes enumerated for the high byte of each 16-bit half (bytes 0 and 2)
HighBytes == {0, 1, 20, 127, 128, 255}
\* bytes enumerated for the low byte of each 16-bit half (bytes 1 and 3)
LowBytes == (0..ByteSpan) \cup {96, 144, 252, 255}
Frames == {<<b0, b1, b2, b3>> : b0 \in HighBytes, b1 \in LowBytes, b2 \in HighBytes, b3 \in LowBytes}

\* frames of the many-caller specification: a reading and two faults
ConcFrames == {<<255, 96, 20, 0>>, <<1, 145, 20, 1>>, <<1, 145, 20, 6>>}

\* the parameters the driver calls bits_to_i16 with
Calibrated == {<<14, 4, 2>>, <<12, 16, 4>>}
\* other parameter choices
Lens == 1..16
Divisors == {1, 2, 4, 16}
Shifts == {0, 2, 4}
\* every field of a calibrated call, and the fields around 0, the sign
\* boundary and the top of the field otherwise
Fields(l, d, s) ==
    IF <<l, d, s>> \in Calibrated THEN 0..(Pow2(l) - 1)
    ELSE {b \in (0..SampleSpan) \cup ((Pow2(l - 1) - SampleSpan)..(Pow2(l - 1) + SampleSpan))
                  \cup ((Pow2(l) - 1 - SampleSpan)..(Pow2(l) - 1)) :
            b >= 0 /\ b < Pow2(l)}

IdleCallers ==
    /\ frame = [c \in Callers |-> <<0, 0, 0, 0>>]
    /\ unitOf = [c \in Callers |-> "Celsius"]
    /\ raw16 = [c \in Callers |-> None]
    /\ temp = [c \in Callers |-> None]
    /\ raw32 = [c \in Callers |-> None]
    /\ full = [c \in Callers |-> None]

IdleBits ==
    /\ argBits = 0
    /\ argLen = 14
    /\ argDivisor = 4
    /\ argShift = 2
    /\ count = None

(***************************************************************************)
(* Calls of the helper functions by caller c.                              *)
(***************************************************************************)
\* the 16-bit exchange clocks out the first two bytes of the frame
ReadThermocoupleRaw(c) ==
    /\ raw16' = [raw16 EXCEPT ![c] = read_thermocouple_raw(SubSeq(frame[c], 1, 2))]
    /\ UNCHANGED <<frame, unitOf, temp, raw32, full, bitsVars>>

ReadThermocouple(c) ==
    /\ raw16[c].kind = "Ok"
    /\ temp' = [temp EXCEPT ![c] = Ok(read_thermocouple(raw16[c].val, unitOf[c]))]
    /\ UNCHANGED <<frame, unitOf, raw16, raw32, full, bitsVars>>

\* ReadAllRaw through a buffer shared by all callers: the frame decoded is
\* that of whichever caller filled the buffer last
ReadAllRaw_shared_buffer(c) ==
    /\ \E d \in Callers : raw32' = [raw32 EXCEPT ![c] = read_all_raw(frame[d])]
    /\ UNCHANGED <<frame, unitOf, raw16, temp, full, bitsVars>>

ReadAllRaw(c) ==
    /\ raw32' = [raw32 EXCEPT ![c] = read_all_raw(frame[c])]
    /\ UNCHANGED <<frame, unitOf, raw16, temp, full, bitsVars>>

ReadAll(c) ==
    /\ raw32[c].kind = "Ok"
    /\ full' = [full EXCEPT ![c] = Ok(read_all(raw32[c].val, unitOf[c]))]
    /\ UNCHANGED <<frame, unitOf, raw16, temp, raw32, bitsVars>>

BitsToI16 ==
    /\ count' = Ok(bits_to_i16(argBits, argLen, argDivisor, argShift))
    /\ UNCHANGED <<callerVars, argBits, argLen, argDivisor, argShift>>

(***************************************************************************)
(* Spec: one caller, frames drawn from Frames.                             *)
(***************************************************************************)
Init ==
    /\ \E f \in Frames : frame = [c \in Callers |-> IF c = Solo THEN f ELSE <<0, 0, 0, 0>>]
    /\ \E u \in Unit : unitOf = [c \in Callers |-> IF c = Solo THEN u ELSE "Celsius"]
    /\ raw16 = [c \in Callers |-> None]
    /\ temp = [c \in Callers |-> None]
    /\ raw32 = [c \in Callers |-> None]
    /\ full = [c \in Callers |-> None]
    /\ IdleBits

Next ==
    \/ ReadThermocoupleRaw(Solo)
    \/ ReadThermocouple(Solo)
    \/ ReadAllRaw(Solo)
    \/ ReadAll(Solo)

Spec == Init /\ [][Next]_vars

(***************************************************************************)
(* SpecConc: NumCallers callers, each with its own frame and unit, calling *)
(* in any interleaving.                                                    *)
(***************************************************************************)
InitConc ==
    /\ frame \in [Callers -> ConcFrames]
    /\ unitOf \in [Callers -> Unit]
    /\ raw16 = [c \in Callers |-> None]
    /\ temp = [c \in Callers |-> None]
    /\ raw32 = [c \in Callers |-> None]
    /\ full = [c \in Callers |-> None]
    /\ IdleBits

NextConc ==
    \E c \in Callers :
        \/ ReadThermocoupleRaw(c)
        \/ ReadThermocouple(c)
        \/ ReadAllRaw(c)
        \/ ReadAll(c)

SpecConc == InitConc /\ [][NextConc]_vars

(***************************************************************************)
(* SpecBits: bits_to_i16 alone, on fields of width len.                    *)
(***************************************************************************)
InitBits ==
    /\ IdleCallers
    /\ \E l \in Lens, d \in Divisors, s \in Shifts :
         /\ argLen = l
         /\ argDivisor = d
         /\ argShift = s
         /\ argBits \in Fields(l, d, s)
    /\ count = None

NextBits == BitsToI16

SpecBits == InitBits /\ [][NextBits]_vars

(***************************************************************************)
(* Reference arithmetic for the properties below, written from the data    *)
(* sheet's view of a frame and not from the driver's functions.            *)
(***************************************************************************)
\* the value of a two's-complement field of the given width
TwosComplement(v, width) == IF v < Pow2(width - 1) THEN v ELSE v - Pow2(width)

\* the two 16-bit halves of a frame, most-significant byte first
FirstHalf(f) == f[1] * 256 + f[2]
SecondHalf(f) == f[3] * 256 + f[4]

\* bit i of a word
BitOf(w, i) == (w \div Pow2(i)) % 2

FaultBitSet(f) == BitOf(FirstHalf(f), 0) = 1

\* the fault the subtype bits of the second half name, in priority order
ExpectedFault(f) ==
    IF BitOf(SecondHalf(f), 0) = 1 THEN "MissingThermocoupleFault"
    ELSE IF BitOf(SecondHalf(f), 1) = 1 THEN "GroundShortFault"
    ELSE IF BitOf(SecondHalf(f), 2) = 1 THEN "VccShortFault"
    ELSE "Fault"

ExpectedThermocouple(f) == TwosComplement(FirstHalf(f) \div 4, 14)
ExpectedInternal(f) == TwosComplement(SecondHalf(f) \div 16, 12)

\* the f32 that is exactly n / 2^k
Dyadic(n, k) == F32Round(Sgn(n), Abs(n), -k, FALSE)

\* floor(x * 1024) of an f32 x
Fixed10(x) ==
    IF x.e + 10 >= 0 THEN x.m * Pow2(x.e + 10)
    ELSE IF -(x.e + 10) > 24 THEN (IF x.m < 0 THEN -1 ELSE 0)
    ELSE x.m \div Pow2(-(x.e + 10))

\* the f32 x is within 3/1024 of the rational num / den
Near(x, num, den) == Abs(Fixed10(x) * den - num * 1024) <= 3 * den

\* what Unit.convert(count * 0.25) and Unit.convert(count * 0.0625) are in
\* exact arithmetic: equal for Celsius, within f32 rounding otherwise
ThermocoupleDegrees(x, cnt, u) ==
    CASE u = "Celsius"    -> x = Dyadic(cnt, 2)
      [] u = "Fahrenheit" -> Near(x, 9 * cnt + 640, 20)
      [] u = "Kelvin"     -> Near(x, 5 * cnt + 5463, 20)
InternalDegrees(x, cnt, u) ==
    CASE u = "Celsius"    -> x = Dyadic(cnt, 4)
      [] u = "Fahrenheit" -> Near(x, 9 * cnt + 2560, 80)
      [] u = "Kelvin"     -> Near(x, 5 * cnt + 21852, 80)

\* i16 as u16
as_u16(x) == x % 65536

\* re-encoding of a decoded count: scale up by the divisor, shift back down
\* and keep the low len bits
Encode(r, l, d, s) == (as_u16(r * d) \div Pow2(s)) % Pow2(l)

\* a frame with every bit the 32-bit decode should ignore cleared
Relevant(f) ==
    IF FaultBitSet(f) THEN <<0, 1, 0, f[4] % 8>>
    ELSE <<f[1], f[2] - (f[2] % 4), f[3], f[4] - (f[4] % 16)>>

(***************************************************************************)
(* Properties.                                                             *)
(***************************************************************************)
\* C1: whenever the fault bit of the frame is set, read_all_raw returns an
\* error, never a FullResultRaw, and the error is the one the subtype bits of
\* the second half name in the priority MissingThermocouple, GroundShort,
\* VccShort, else Fault.
C1_FaultPriority ==
    \A c \in Callers :
        (raw32[c] # None /\ FaultBitSet(frame[c])) => raw32[c] = Err(ExpectedFault(frame[c]))

\* C1 witness: all three subtype bits set, MissingThermocouple reported
C1_Witness ==
    \E c \in Callers :
        /\ FaultBitSet(frame[c])
        /\ SecondHalf(frame[c]) % 8 = 7
        /\ raw32[c] = Err("MissingThermocoupleFault")

\* C2: whenever the fault bit is clear, read_all_raw returns Ok with the
\* 14-bit two's-complement value of bits 2-15 of the first half and the 12-bit
\* two's-complement value of bits 4-15 of the second half.
C2_FieldsDecoded ==
    \A c \in Callers :
        (raw32[c] # None /\ ~FaultBitSet(frame[c])) =>
            raw32[c] = Ok([thermocouple |-> ExpectedThermocouple(frame[c]),
                           internal     |-> ExpectedInternal(frame[c])])

\* C2 witness: a fault-free frame whose two fields are both negative
C2_Witness ==
    \E c \in Callers :
        /\ ~FaultBitSet(frame[c])
        /\ raw32[c].kind = "Ok"
        /\ raw32[c].val.thermocouple < 0
        /\ raw32[c].val.internal < 0

\* C3: read_thermocouple_raw returns Fault exactly when bit 0 of the low byte
\* is set, otherwise Ok with the 14-bit two's-complement value of bits 2-15;
\* it never returns a fault subtype; bytes 0x01, 0x90 give 100.
C3_Thermocouple16 ==
    \A c \in Callers :
        raw16[c] # None =>
            /\ (raw16[c] = Err("Fault")) <=> (frame[c][2] % 2 = 1)
            /\ frame[c][2] % 2 = 0 => raw16[c] = Ok(ExpectedThermocouple(frame[c]))
            /\ raw16[c].kind = "Err" => raw16[c].err = "Fault"
            /\ (frame[c][1] = 1 /\ frame[c][2] = 144) => raw16[c] = Ok(100)

\* C3 witness: the frame 0x01, 0x90 decoded to 100
C3_Witness ==
    \E c \in Callers : frame[c][1] = 1 /\ frame[c][2] = 144 /\ raw16[c] = Ok(100)

\* C4: every raw count returned is within its field's range: thermocouple in
\* [-8192, 8191] on both paths, internal in [-2048, 2047].
C4_CountsInRange ==
    \A c \in Callers :
        /\ raw16[c].kind = "Ok" => raw16[c].val \in -8192..8191
        /\ raw32[c].kind = "Ok" =>
            /\ raw32[c].val.thermocouple \in -8192..8191
            /\ raw32[c].val.internal \in -2048..2047

\* C4 witness: both fields at their most negative value
C4_Witness ==
    \E c \in Callers :
        /\ raw16[c] = Ok(-8192)
        /\ raw32[c] = Ok([thermocouple |-> -8192, internal |-> -2048])

\* C5: FullResultRaw.convert(unit) carries the requested unit, its
\* thermocouple is Unit.convert(thermocouple count * 0.25) and its internal is
\* Unit.convert(internal count * 0.0625); counts -40 and 320 give exactly
\* 14.0 F and 68.0 F.
C5_ConvertScales ==
    \A c \in Callers :
        full[c] # None =>
            /\ raw32[c].kind = "Ok"
            /\ full[c].val.unit = unitOf[c]
            /\ ThermocoupleDegrees(full[c].val.thermocouple, raw32[c].val.thermocouple, unitOf[c])
            /\ InternalDegrees(full[c].val.internal, raw32[c].val.internal, unitOf[c])
            /\ (unitOf[c] = "Fahrenheit" /\ raw32[c].val.thermocouple = -40) =>
                   full[c].val.thermocouple = Dyadic(14, 0)
            /\ (unitOf[c] = "Fahrenheit" /\ raw32[c].val.internal = 320) =>
                   full[c].val.internal = Dyadic(68, 0)

\* C5 witness: -10.0 C and 20.0 C converted to Fahrenheit
C5_Witness ==
    \E c \in Callers :
        /\ unitOf[c] = "Fahrenheit"
        /\ raw32[c] = Ok([thermocouple |-> -40, internal |-> 320])
        /\ full[c] = Ok([thermocouple |-> Dyadic(14, 0), internal |-> Dyadic(68, 0),
                         unit |-> "Fahrenheit"])

\* C6: for the calibrated parameters (14, 4, 2) and (12, 16, 4), decoding a
\* field and re-encoding the count recovers the field.
C6_RoundTrip ==
    (count # None /\ <<argLen, argDivisor, argShift>> \in Calibrated) =>
        Encode(count.val, argLen, argDivisor, argShift) = argBits

\* C6 witness: the negative 14-bit field of -40 decoded
C6_Witness ==
    /\ <<argLen, argDivisor, argShift>> = <<14, 4, 2>>
    /\ argBits = 16344
    /\ count = Ok(-40)

C8_NonNegativeIdentity ==
    (count # None /\ BitOf(argBits, argLen - 1) = 0) => count = Ok(argBits)

\* C8 witness: a 16-bit field with uncalibrated divisor and shift
C8_Witness ==
    /\ argLen = 16
    /\ argDivisor = 16
    /\ argShift = 2
    /\ argBits = 32767
    /\ count = Ok(32767)

\* C9: on one frame the 16-bit path is Ok exactly when the 32-bit path is, an
\* Ok 16-bit count is the 32-bit thermocouple count, and a failing 16-bit path
\* reports Fault whatever the 32-bit subtype.
C9_PathsAgree ==
    \A c \in Callers :
        (raw16[c] # None /\ raw32[c] # None) =>
            /\ (raw16[c].kind = "Ok") <=> (raw32[c].kind = "Ok")
            /\ raw16[c].kind = "Ok" => raw16[c].val = raw32[c].val.thermocouple
            /\ raw16[c].kind = "Err" => raw16[c] = Err("Fault")

\* C9 witness: Fault on the 16-bit path, a subtype on the 32-bit path
C9_Witness ==
    \E c \in Callers : raw16[c] = Err("Fault") /\ raw32[c] = Err("GroundShortFault")

\* C10: the result of read_all_raw is that of the frame with every
\* irrelevant bit cleared: with the fault bit set only bits 0-2 of the second
\* half matter, with it clear only bits 2-15 of the first half and bits 4-15
\* of the second.
C10_IrrelevantBitsIgnored ==
    \A c \in Callers : raw32[c] # None => raw32[c] = read_all_raw(Relevant(frame[c]))

\* C10 witness: stray subtype and reserved bits without the fault bit
C10_Witness ==
    \E c \in Callers :
        /\ frame[c][2] % 4 = 2
        /\ frame[c][4] % 16 = 15
        /\ raw32[c].kind = "Ok"

====
